---------------------------- MODULE Spec2Model ----------------------------
(***************************************************************************)
(* The assistant bot of main_task_1.py: the validated value types (Phone,  *)
(* Birthday), Record, AddressBook, the command handlers wrapped by         *)
(* input_error, and the command loop of main.                              *)
(*                                                                         *)
(* A string is a sequence of characters, a character is a one-element      *)
(* TLA+ string; the three non-ASCII characters of the model are named by   *)
(* their code points: "u0660", "u0661", "u0669" are ARABIC-INDIC DIGIT     *)
(* ZERO, ONE and NINE (str.isdigit() is true of them, the regular          *)
(* expression \d of strptime matches them, int() reads them as 0, 1, 9).   *)
(***************************************************************************)
EXTENDS Integers, Sequences, FiniteSets, TLC

VARIABLES
    book,        \* AddressBook.records: the records, in the dict's insertion order
    pc,          \* where main is: "prompt" (at input()), "printed" (a branch has
                 \* printed), "stopped" (after break), "crashed" (an exception left main)
    user_input,  \* the line input() returned
    out,         \* what the iteration printed
    today,       \* what datetime.today() returned to get_upcoming_birthdays
    passed       \* history: per name, the date of the last add-birthday that
                 \* returned "Birthday added." (<<>> when there is none)

vars == <<book, pc, user_input, out, today, passed>>

----------------------------------------------------------------------------
(* Bounds of the model.                                                    *)

\* The add command is not offered once the book holds this many phones.
MaxPhones == 2

----------------------------------------------------------------------------
(* Characters and strings.                                                 *)

AsciiDigits == {"0", "1", "2", "3", "4", "5", "6", "7", "8", "9"}

ArabicIndicDigits == {"u0660", "u0661", "u0669"}

\* The characters c with c.isdigit().
IsDigitChars == AsciiDigits \cup ArabicIndicDigits

\* The characters the regular expression \d matches (Unicode decimal digits).
DecimalChars == AsciiDigits \cup ArabicIndicDigits

\* int(c) of a decimal character.
DigitVal(c) ==
    CASE c = "0" -> 0 [] c = "1" -> 1 [] c = "2" -> 2 [] c = "3" -> 3
      [] c = "4" -> 4 [] c = "5" -> 5 [] c = "6" -> 6 [] c = "7" -> 7
      [] c = "8" -> 8 [] c = "9" -> 9
      [] c = "u0660" -> 0 [] c = "u0661" -> 1 [] c = "u0669" -> 9

\* str(n) of one decimal digit.
DigitChar(n) ==
    CASE n = 0 -> "0" [] n = 1 -> "1" [] n = 2 -> "2" [] n = 3 -> "3"
      [] n = 4 -> "4" [] n = 5 -> "5" [] n = 6 -> "6" [] n = 7 -> "7"
      [] n = 8 -> "8" [] n = 9 -> "9"

\* c * n
Rep(c, n) == [i \in 1..n |-> c]

\* s.isdigit(): every character is a digit and there is at least one.
isdigit(s) == Len(s) > 0 /\ \A i \in 1..Len(s) : s[i] \in IsDigitChars

\* int(s) of a string of decimal characters.
RECURSIVE IntOf(_)
IntOf(s) ==
    IF s = <<>> THEN 0
    ELSE 10 * IntOf(SubSeq(s, 1, Len(s) - 1)) + DigitVal(s[Len(s)])

\* sep.join(ss)
RECURSIVE Join(_, _)
Join(sep, ss) ==
    IF ss = <<>> THEN <<>>
    ELSE IF Len(ss) = 1 THEN ss[1]
    ELSE ss[1] \o sep \o Join(sep, Tail(ss))

\* s.split(): the maximal runs of characters that are not whitespace.
RECURSIVE SplitFrom(_, _)
SplitFrom(s, word) ==
    IF s = <<>> THEN (IF word = <<>> THEN <<>> ELSE <<word>>)
    ELSE IF Head(s) = " "
         THEN (IF word = <<>> THEN <<>> ELSE <<word>>) \o SplitFrom(Tail(s), <<>>)
         ELSE SplitFrom(Tail(s), Append(word, Head(s)))

parse_input(line) == SplitFrom(line, <<>>)


----------------------------------------------------------------------------
(* The calendar of datetime: proleptic Gregorian, days counted from        *)
(* 0001-01-01 (date.toordinal), a day of 86400 seconds.                    *)

SecondsPerDay == 86400

\* datetime.MINYEAR: no date has a year below it.
MinYear == 1

IsLeap(y) == y % 4 = 0 /\ (y % 100 # 0 \/ y % 400 = 0)

DaysInMonth(y, m) ==
    IF m = 2 THEN (IF IsLeap(y) THEN 29 ELSE 28)
    ELSE IF m \in {4, 6, 9, 11} THEN 30 ELSE 31

DaysBeforeYear(y) ==
    (y - 1) * 365 + ((y - 1) \div 4) - ((y - 1) \div 100) + ((y - 1) \div 400)

RECURSIVE DaysBeforeMonth(_, _)
DaysBeforeMonth(y, m) ==
    IF m = 1 THEN 0 ELSE DaysBeforeMonth(y, m - 1) + DaysInMonth(y, m - 1)

\* date(y, m, d).toordinal()
Ordinal(y, m, d) == DaysBeforeYear(y) + DaysBeforeMonth(y, m) + d

\* Whether datetime(y, m, d) can be constructed.
ValidDate(y, m, d) ==
    /\ y >= MinYear
    /\ m \in 1..12
    /\ d \in 1..DaysInMonth(y, m)

----------------------------------------------------------------------------
(* Validated value types.  A call that can raise returns a record with     *)
(* raised (whether it raised) and text (str(e) of the exception).          *)

PhoneLen == 10

\* Phone.__init__ accepts value.
PhoneOk(value) == isdigit(value) /\ Len(value) = PhoneLen

PhoneError == "Phone number must be 10 digits."

BirthdayError == "Invalid date format. Use DD.MM.YYYY"

\* The directive %d of strptime: 3[0-1]|[1-2]\d|0[1-9]|[1-9]| [1-9]
MatchesDay(t) ==
    \/ Len(t) = 2 /\ t[1] = "3" /\ t[2] \in {"0", "1"}
    \/ Len(t) = 2 /\ t[1] \in {"1", "2"} /\ t[2] \in DecimalChars
    \/ Len(t) = 2 /\ t[1] = "0" /\ t[2] \in AsciiDigits \ {"0"}
    \/ Len(t) = 1 /\ t[1] \in AsciiDigits \ {"0"}
    \/ Len(t) = 2 /\ t[1] = " " /\ t[2] \in AsciiDigits \ {"0"}

\* The directive %m of strptime: 1[0-2]|0[1-9]|[1-9]
MatchesMonth(t) ==
    \/ Len(t) = 2 /\ t[1] = "1" /\ t[2] \in {"0", "1", "2"}
    \/ Len(t) = 2 /\ t[1] = "0" /\ t[2] \in AsciiDigits \ {"0"}
    \/ Len(t) = 1 /\ t[1] \in AsciiDigits \ {"0"}

\* The directive %Y of strptime: \d\d\d\d
MatchesYear(t) == Len(t) = 4 /\ \A i \in 1..4 : t[i] \in DecimalChars

\* The positions (i, j) of the two dots at which "%d.%m.%Y" matches all of value.
DotSplits(value) ==
    {ij \in (1..Len(value)) \X (1..Len(value)) :
        /\ ij[1] < ij[2]
        /\ value[ij[1]] = "."
        /\ value[ij[2]] = "."
        /\ MatchesDay(SubSeq(value, 1, ij[1] - 1))
        /\ MatchesMonth(SubSeq(value, ij[1] + 1, ij[2] - 1))
        /\ MatchesYear(SubSeq(value, ij[2] + 1, Len(value)))}

\* int() of a matched day: a leading space is skipped.
DayOf(t) == IF t[1] = " " THEN IntOf(Tail(t)) ELSE IntOf(t)

\* datetime.strptime(value, "%d.%m.%Y"): <<y, m, d>> (midnight of that day),
\* or <<>> when it raises ValueError.
strptime(value) ==
    IF DotSplits(value) = {} THEN <<>>
    ELSE LET ij == CHOOSE x \in DotSplits(value) : TRUE
             d  == DayOf(SubSeq(value, 1, ij[1] - 1))
             m  == IntOf(SubSeq(value, ij[1] + 1, ij[2] - 1))
             y  == IntOf(SubSeq(value, ij[2] + 1, Len(value)))
         IN  IF ValidDate(y, m, d) THEN <<y, m, d>> ELSE <<>>

\* A record's birthday when none is set (None).
NoBirthday == <<>>

\* Birthday.__init__: the ValueError of strptime is raised again with BirthdayError.
Birthday(value) ==
    LET dt == strptime(value)
    IN  [raised |-> dt = <<>>, text |-> BirthdayError, value |-> dt]

\* n as decimal digits, zero-padded to at least width characters.
RECURSIVE Digits(_, _)
Digits(n, width) ==
    IF n < 10 /\ width <= 1 THEN <<DigitChar(n)>>
    ELSE Append(Digits(n \div 10, width - 1), DigitChar(n % 10))

\* dt.strftime("%d.%m.%Y").  The C library pads %Y to four digits on some
\* platforms and not on others: padYear is the platform's choice.
strftime(dt, padYear) ==
    Digits(dt[3], 2) \o <<".">> \o Digits(dt[2], 2) \o <<".">>
        \o Digits(dt[1], IF padYear THEN 4 ELSE 1)

----------------------------------------------------------------------------
(* Record and AddressBook.  A record is [name, phones, birthday]; the book *)
(* is the sequence of the dict's values in insertion order, one per key.   *)

\* What a handler returns or main prints: a str given by a literal of the
\* source (text), a str computed from characters (data), or a list (data).
Text(t) == [kind |-> "str", text |-> t, data |-> <<>>]

Chars(s) == [kind |-> "str", text |-> "", data |-> s]

List(l) == [kind |-> "list", text |-> "", data |-> l]

\* Record.__init__
Record(name) == [name |-> name, phones |-> <<>>, birthday |-> NoBirthday]

\* Record.add_phone: appends Phone(phone), or raises what Phone raises.
Record_add_phone(record, phone) ==
    IF PhoneOk(phone)
    THEN [raised |-> FALSE, text |-> "",
          record |-> [record EXCEPT !.phones = Append(@, phone)]]
    ELSE [raised |-> TRUE, text |-> PhoneError, record |-> record]

\* Record.add_birthday: sets the birthday, or raises what Birthday raises.
Record_add_birthday(record, birthday) ==
    LET b == Birthday(birthday)
    IN  IF b.raised
        THEN [raised |-> TRUE, text |-> b.text, record |-> record]
        ELSE [raised |-> FALSE, text |-> "",
              record |-> [record EXCEPT !.birthday = b.value]]

NoBirthdaySet == "No birthday set."

\* Record.show_birthday: the formatted birthday as a string, or the message.
Record_show_birthday(record, padYear) ==
    IF record.birthday # NoBirthday
    THEN Chars(strftime(record.birthday, padYear))
    ELSE Text(NoBirthdaySet)

\* AddressBook.find: the position of the record named name, 0 for None.
find(records, name) ==
    IF \E i \in 1..Len(records) : records[i].name = name
    THEN CHOOSE i \in 1..Len(records) : records[i].name = name
    ELSE 0

\* AddressBook.add_record: a new key goes last, an old key keeps its place.
add_record(records, record) ==
    LET i == find(records, record.name)
    IN  IF i = 0 THEN Append(records, record)
        ELSE [records EXCEPT ![i] = record]

DayOutOfRange == "day is out of range for month"

\* Mutant of ReplaceYearRaises: replace never raises, a 29 February of a year
\* without one counting as the day after 28 February.
ReplaceYearNeverRaises(dt, year) == FALSE

\* record.birthday.value.replace(year=year): raises ValueError when the year
\* has no such day.
ReplaceYearRaises(dt, year) == ~ValidDate(year, dt[2], dt[3])

\* (birthday_this_year - today).days: timedelta keeps 0 <= seconds < 86400,
\* so days is the floor of the difference in days.
DeltaDays(dt, now) ==
    ((Ordinal(now.y, dt[2], dt[3]) - Ordinal(now.y, now.m, now.d)) * SecondsPerDay
        - now.sec) \div SecondsPerDay

\* The window of line 88, in days.
WindowDays == 7

\* Mutant of IsUpcoming: a birthday that has passed this year is looked for
\* in the next year.
IsUpcomingRollsOver(dt, now) ==
    LET delta == IF DeltaDays(dt, now) >= 0 THEN DeltaDays(dt, now)
                 ELSE ((Ordinal(now.y + 1, dt[2], dt[3])
                            - Ordinal(now.y, now.m, now.d)) * SecondsPerDay
                        - now.sec) \div SecondsPerDay
    IN  0 <= delta /\ delta < WindowDays

\* The test of line 88 on one record's birthday.
IsUpcoming(dt, now) == 0 <= DeltaDays(dt, now) /\ DeltaDays(dt, now) < WindowDays

\* The loop of AddressBook.get_upcoming_birthdays from record i on, acc being
\* upcoming_birthdays so far.
RECURSIVE UpcomingFrom(_, _, _, _)
UpcomingFrom(records, i, acc, now) ==
    IF i > Len(records) THEN [raised |-> FALSE, text |-> "", data |-> acc]
    ELSE IF records[i].birthday = NoBirthday
         THEN UpcomingFrom(records, i + 1, acc, now)
    ELSE IF ReplaceYearRaises(records[i].birthday, now.y)
         THEN [raised |-> TRUE, text |-> DayOutOfRange, data |-> <<>>]
    ELSE IF IsUpcoming(records[i].birthday, now)
         THEN UpcomingFrom(records, i + 1, Append(acc, records[i].name), now)
    ELSE UpcomingFrom(records, i + 1, acc, now)

\* AddressBook.get_upcoming_birthdays, datetime.today() having returned now.
get_upcoming_birthdays(records, now) == UpcomingFrom(records, 1, <<>>, now)

----------------------------------------------------------------------------
(* The command handlers.  The body of a handler ends by returning a value  *)
(* or by raising; either way it leaves the records as it changed them up   *)
(* to that point.  input_error turns a raised exception into its text.     *)

Return(val, records) ==
    [raised |-> FALSE, text |-> "", val |-> val, records |-> records]

Raise(text, records) ==
    [raised |-> TRUE, text |-> text, val |-> Text(""), records |-> records]

\* The wrapper of input_error: the value returned, or str(e).
input_error(r) ==
    [val |-> IF r.raised THEN Text(r.text) ELSE r.val, records |-> r.records]

\* str(e) of the ValueError of an unpacking assignment (the counts it names
\* are left out).
NotEnoughValues == "not enough values to unpack"

TooManyValues == "too many values to unpack"

ContactAdded == "Contact added."

ContactUpdated == "Contact updated."

ContactNotFound == "Contact not found."

BirthdayAdded == "Birthday added."

PhoneUpdated == "Phone number updated."

OldPhoneNotFound == "Old phone number not found."

\* Mutant of add_contact: a record is made and stored under the name whether
\* or not the book has one.
add_contact_overwrites(args, records) ==
    input_error(
        IF Len(args) < 2 THEN Raise(NotEnoughValues, records)
        ELSE LET name    == args[1]
                 phone   == args[2]
                 isNew   == find(records, name) = 0
                 recs1   == add_record(records, Record(name))
                 message == IF isNew THEN ContactAdded ELSE ContactUpdated
                 i       == find(recs1, name)
                 r       == Record_add_phone(recs1[i], phone)
             IN  IF phone = <<>> THEN Return(Text(message), recs1)
                 ELSE IF r.raised THEN Raise(r.text, recs1)
                 ELSE Return(Text(message), [recs1 EXCEPT ![i] = r.record]))

\* add_contact: name, phone, *_ = args
add_contact(args, records) ==
    input_error(
        IF Len(args) < 2 THEN Raise(NotEnoughValues, records)
        ELSE LET name    == args[1]
                 phone   == args[2]
                 isNew   == find(records, name) = 0
                 recs1   == IF isNew THEN add_record(records, Record(name))
                            ELSE records
                 message == IF isNew THEN ContactAdded ELSE ContactUpdated
                 i       == find(recs1, name)
                 r       == Record_add_phone(recs1[i], phone)
             IN  IF phone = <<>> THEN Return(Text(message), recs1)
                 ELSE IF r.raised THEN Raise(r.text, recs1)
                 ELSE Return(Text(message), [recs1 EXCEPT ![i] = r.record]))

\* add_birthday: name, birthday = args
add_birthday(args, records) ==
    input_error(
        IF Len(args) < 2 THEN Raise(NotEnoughValues, records)
        ELSE IF Len(args) > 2 THEN Raise(TooManyValues, records)
        ELSE LET i == find(records, args[1])
                 r == Record_add_birthday(records[i], args[2])
             IN  IF i = 0 THEN Return(Text(ContactNotFound), records)
                 ELSE IF r.raised THEN Raise(r.text, records)
                 ELSE Return(Text(BirthdayAdded),
                             [records EXCEPT ![i] = r.record]))

\* show_birthday: name, = args
show_birthday(args, records, padYear) ==
    input_error(
        IF Len(args) < 1 THEN Raise(NotEnoughValues, records)
        ELSE IF Len(args) > 1 THEN Raise(TooManyValues, records)
        ELSE LET i == find(records, args[1])
             IN  IF i = 0 THEN Return(Text(ContactNotFound), records)
                 ELSE Return(Record_show_birthday(records[i], padYear), records))

\* birthdays: args are not looked at.
birthdays(args, records, now) ==
    input_error(
        LET r == get_upcoming_birthdays(records, now)
        IN  IF r.raised THEN Raise(r.text, records)
            ELSE Return(List(r.data), records))

\* s without its element at position i.
RemoveAt(s, i) == SubSeq(s, 1, i - 1) \o SubSeq(s, i + 1, Len(s))

\* The first position of phones holding value, 0 when there is none.
FirstIndex(phones, value) ==
    IF \E k \in 1..Len(phones) : phones[k] = value
    THEN CHOOSE k \in 1..Len(phones) :
            phones[k] = value /\ \A j \in 1..(k - 1) : phones[j] # value
    ELSE 0

\* Mutant of change_phone: name, old_phone, new_phone, *_ = args
change_phone_ignores_extra(args, records) ==
    input_error(
        IF Len(args) < 3 THEN Raise(NotEnoughValues, records)
        ELSE LET i       == find(records, args[1])
                 k       == FirstIndex(records[i].phones, args[2])
                 removed == [records[i] EXCEPT !.phones = RemoveAt(@, k)]
                 recs1   == [records EXCEPT ![i] = removed]
                 r       == Record_add_phone(removed, args[3])
             IN  IF i = 0 THEN Return(Text(ContactNotFound), records)
                 ELSE IF k = 0 THEN Return(Text(OldPhoneNotFound), records)
                 ELSE IF r.raised THEN Raise(r.text, recs1)
                 ELSE Return(Text(PhoneUpdated),
                             [records EXCEPT ![i] = r.record]))

\* change_phone: name, old_phone, new_phone = args.  The first phone equal
\* to old_phone is removed, then new_phone is added.
change_phone(args, records) ==
    input_error(
        IF Len(args) < 3 THEN Raise(NotEnoughValues, records)
        ELSE IF Len(args) > 3 THEN Raise(TooManyValues, records)
        ELSE LET i       == find(records, args[1])
                 k       == FirstIndex(records[i].phones, args[2])
                 removed == [records[i] EXCEPT !.phones = RemoveAt(@, k)]
                 recs1   == [records EXCEPT ![i] = removed]
                 r       == Record_add_phone(removed, args[3])
             IN  IF i = 0 THEN Return(Text(ContactNotFound), records)
                 ELSE IF k = 0 THEN Return(Text(OldPhoneNotFound), records)
                 ELSE IF r.raised THEN Raise(r.text, recs1)
                 ELSE Return(Text(PhoneUpdated),
                             [records EXCEPT ![i] = r.record]))

\* show_phones: name, = args
show_phones(args, records) ==
    input_error(
        IF Len(args) < 1 THEN Raise(NotEnoughValues, records)
        ELSE IF Len(args) > 1 THEN Raise(TooManyValues, records)
        ELSE LET i == find(records, args[1])
             IN  IF i = 0 THEN Return(Text(ContactNotFound), records)
                 ELSE Return(Chars(Join(<<",", " ">>, records[i].phones)),
                             records))

\* show_all_contacts: one line "name: phones" per record, joined by "\n".
show_all_contacts(records) ==
    input_error(
        Return(Chars(Join(<<"\n">>,
                          [i \in 1..Len(records) |->
                              records[i].name \o <<":", " ">>
                                  \o Join(<<",", " ">>, records[i].phones)])),
               records))

----------------------------------------------------------------------------
(* The inputs of the model: the lines typed and the clock's readings.      *)

CmdClose == <<"c", "l", "o", "s", "e">>
CmdExit == <<"e", "x", "i", "t">>
CmdHello == <<"h", "e", "l", "l", "o">>
CmdAdd == <<"a", "d", "d">>
CmdChange == <<"c", "h", "a", "n", "g", "e">>
CmdPhone == <<"p", "h", "o", "n", "e">>
CmdAll == <<"a", "l", "l">>
CmdAddBirthday == <<"a", "d", "d", "-", "b", "i", "r", "t", "h", "d", "a", "y">>
CmdShowBirthday == <<"s", "h", "o", "w", "-", "b", "i", "r", "t", "h", "d", "a", "y">>
CmdBirthdays == <<"b", "i", "r", "t", "h", "d", "a", "y", "s">>
CmdOther == <<"h", "e", "l", "p">>

NameJ == <<"J">>
NameA == <<"A">>
Names == {NameJ, NameA}

\* Phones: two of ten ASCII digits, one of ten Arabic-Indic digits, and
\* three that are too short, too long, or hold a letter.
Phone1 == Rep("1", PhoneLen)
Phone2 == Rep("2", PhoneLen)
PhoneArabic == Rep("u0661", PhoneLen)
PhoneShort == Rep("1", PhoneLen - 1)
PhoneLong == Rep("1", PhoneLen + 1)
PhoneLetter == Append(Rep("1", PhoneLen - 1), "a")

PhoneInputs ==
    {Phone1, Phone2, PhoneArabic, PhoneShort, PhoneLong, PhoneLetter}

\* Dates: 10.06.1990 written in two ways, 29.02.2000, 02.01.0999, and
\* three that are no date of the form.
Date10Jun == <<"1", "0", ".", "0", "6", ".", "1", "9", "9", "0">>
Date10JunShort == <<"1", "0", ".", "6", ".", "1", "9", "9", "0">>
Date29Feb == <<"2", "9", ".", "0", "2", ".", "2", "0", "0", "0">>
Date2Jan999 == <<"0", "2", ".", "0", "1", ".", "0", "9", "9", "9">>
Date30Feb == <<"3", "0", ".", "0", "2", ".", "1", "9", "9", "0">>
DateDashes == <<"1", "0", "-", "0", "6", "-", "1", "9", "9", "0">>
DateShortYear == <<"1", "0", ".", "0", "6", ".", "9", "0">>

DateInputs ==
    {Date10Jun, Date10JunShort, Date29Feb, Date2Jan999,
     Date30Feb, DateDashes, DateShortYear}

\* The words of a line, one space between them.
Line(words) == Join(<<" ">>, words)

AddLines ==
    {Line(<<CmdAdd, n, p>>) : n \in Names, p \in PhoneInputs}
        \cup {Line(<<CmdAdd>>), Line(<<CmdAdd, NameJ>>),
              Line(<<CmdAdd, NameJ, Phone1, Phone2>>),
              <<" ">> \o Line(<<CmdAdd, NameA, Phone2>>) \o <<" ", " ">>}

ChangeLines ==
    {Line(<<CmdChange, n, p, q>>) :
        n \in Names, p \in {Phone1, Phone2}, q \in {Phone1, PhoneArabic, PhoneShort}}
        \cup {Line(<<CmdChange, NameJ, Phone1>>),
              Line(<<CmdChange, NameJ, Phone1, Phone2, Phone1>>)}

PhoneLines ==
    {Line(<<CmdPhone, n>>) : n \in Names}
        \cup {Line(<<CmdPhone>>), Line(<<CmdPhone, NameJ, NameA>>)}

AddBirthdayLines ==
    {Line(<<CmdAddBirthday, n, d>>) : n \in Names, d \in DateInputs}
        \cup {Line(<<CmdAddBirthday, NameJ>>),
              Line(<<CmdAddBirthday, NameJ, Date10Jun, Date29Feb>>)}

ShowBirthdayLines ==
    {Line(<<CmdShowBirthday, n>>) : n \in Names}
        \cup {Line(<<CmdShowBirthday>>), Line(<<CmdShowBirthday, NameJ, NameA>>)}

OtherLines ==
    {Line(<<CmdHello>>), Line(<<CmdAll>>), Line(<<CmdBirthdays>>),
     Line(<<CmdClose>>), Line(<<CmdExit>>), Line(<<CmdOther>>),
     <<>>, <<" ", " ">>}

Lines ==
    AddLines \cup ChangeLines \cup PhoneLines \cup AddBirthdayLines
        \cup ShowBirthdayLines \cup OtherLines

\* The clock: midnight and noon of some days of 2023 and of 2024 (a leap year).
Clock ==
    {[y |-> y, m |-> md[1], d |-> md[2], sec |-> sec] :
        y \in {2023, 2024},
        md \in {<<6, 3>>, <<6, 4>>, <<6, 10>>, <<6, 11>>, <<12, 30>>},
        sec \in {0, 43200}}

\* today before get_upcoming_birthdays has read the clock.
NoClock == [y |-> 0, m |-> 0, d |-> 0, sec |-> 0]

----------------------------------------------------------------------------
(* main: the command loop.                                                 *)

GoodBye == "Good bye!"

HowCanIHelp == "How can I help you?"

InvalidCommand == "Invalid command."

RECURSIVE SumLen(_)
SumLen(records) ==
    IF records = <<>> THEN 0
    ELSE Len(Head(records).phones) + SumLen(Tail(records))

\* parse_input of every line of the model.
Parsed == [line \in Lines |-> parse_input(line)]

Init ==
    /\ book = <<>>
    /\ pc = "prompt"
    /\ user_input = <<>>
    /\ out = Text("")
    /\ today = NoClock
    /\ passed = [n \in Names |-> <<>>]

\* Lines 152-153: input() returns line, whose first word is one of commands.
Reads(line, commands) ==
    /\ Parsed[line] # <<>>
    /\ Head(Parsed[line]) \in commands
    /\ user_input' = line

\* command, *args = parse_input(user_input): args of a line read.
ArgsOf(line) == Tail(Parsed[line])

\* What a branch of the loop does: the handler's value is printed and its
\* changes to the records stay.
Printed(r) ==
    /\ out' = r.val
    /\ book' = r.records
    /\ pc' = "printed"

\* Line 153 on a line without a word: the unpacking raises ValueError, which
\* nothing catches.
UnpackFails ==
    /\ pc = "prompt"
    /\ \E line \in Lines :
        /\ Parsed[line] = <<>>
        /\ user_input' = line
        /\ pc' = "crashed"
        /\ UNCHANGED <<book, out, today, passed>>

Close ==
    /\ pc = "prompt"
    /\ \E line \in Lines :
        /\ Reads(line, {CmdClose, CmdExit})
        /\ out' = Text(GoodBye)
        /\ pc' = "stopped"
        /\ UNCHANGED <<book, today, passed>>

Hello ==
    /\ pc = "prompt"
    /\ \E line \in Lines :
        /\ Reads(line, {CmdHello})
        /\ Printed([val |-> Text(HowCanIHelp), records |-> book])
        /\ UNCHANGED <<today, passed>>

\* An add that would store a phone is typed only while the book holds fewer
\* than MaxPhones phones.
Add ==
    /\ pc = "prompt"
    /\ \E line \in Lines :
        /\ Reads(line, {CmdAdd})
        /\ (Len(ArgsOf(line)) >= 2 /\ PhoneOk(ArgsOf(line)[2]))
               => SumLen(book) < MaxPhones
        /\ Printed(add_contact(ArgsOf(line), book))
        /\ UNCHANGED <<today, passed>>

Change ==
    /\ pc = "prompt"
    /\ \E line \in Lines :
        /\ Reads(line, {CmdChange})
        /\ Printed(change_phone(ArgsOf(line), book))
        /\ UNCHANGED <<today, passed>>

Phone ==
    /\ pc = "prompt"
    /\ \E line \in Lines :
        /\ Reads(line, {CmdPhone})
        /\ Printed(show_phones(ArgsOf(line), book))
        /\ UNCHANGED <<today, passed>>

All ==
    /\ pc = "prompt"
    /\ \E line \in Lines :
        /\ Reads(line, {CmdAll})
        /\ Printed(show_all_contacts(book))
        /\ UNCHANGED <<today, passed>>

AddBirthday ==
    /\ pc = "prompt"
    /\ \E line \in Lines :
        /\ Reads(line, {CmdAddBirthday})
        /\ Printed(add_birthday(ArgsOf(line), book))
        /\ passed' = IF add_birthday(ArgsOf(line), book).val = Text(BirthdayAdded)
                     THEN [passed EXCEPT ![ArgsOf(line)[1]] = ArgsOf(line)[2]]
                     ELSE passed
        /\ UNCHANGED today

ShowBirthday ==
    /\ pc = "prompt"
    /\ \E line \in Lines :
        /\ Reads(line, {CmdShowBirthday})
        /\ \E padYear \in BOOLEAN :
            Printed(show_birthday(ArgsOf(line), book, padYear))
        /\ UNCHANGED <<today, passed>>

Birthdays ==
    /\ pc = "prompt"
    /\ \E line \in Lines :
        /\ Reads(line, {CmdBirthdays})
        /\ \E now \in Clock :
            /\ today' = now
            /\ Printed(birthdays(ArgsOf(line), book, now))
        /\ UNCHANGED passed

Commands ==
    {CmdClose, CmdExit, CmdHello, CmdAdd, CmdChange, CmdPhone, CmdAll,
     CmdAddBirthday, CmdShowBirthday, CmdBirthdays}

Invalid ==
    /\ pc = "prompt"
    /\ \E line \in Lines :
        /\ Parsed[line] # <<>>
        /\ Head(Parsed[line]) \notin Commands
        /\ user_input' = line
        /\ Printed([val |-> Text(InvalidCommand), records |-> book])
        /\ UNCHANGED <<today, passed>>

\* Back to line 151: the next iteration has read and printed nothing yet.
NextIteration ==
    /\ pc = "printed"
    /\ pc' = "prompt"
    /\ user_input' = <<>>
    /\ out' = Text("")
    /\ today' = NoClock
    /\ UNCHANGED <<book, passed>>

Next ==
    \/ UnpackFails
    \/ Close
    \/ Hello
    \/ Add
    \/ Change
    \/ Phone
    \/ All
    \/ AddBirthday
    \/ ShowBirthday
    \/ Birthdays
    \/ Invalid
    \/ NextIteration

Spec == Init /\ [][Next]_vars

----------------------------------------------------------------------------
(* What the properties speak of.                                           *)

\* The words of the line read last, its command and its arguments.
Words == Parsed[user_input]
command == IF Words = <<>> THEN <<>> ELSE Head(Words)
args == IF Words = <<>> THEN <<>> ELSE Tail(Words)

\* A branch of the loop has just handled the command cmd.
Handled(cmd) == pc = "printed" /\ command = cmd

\* The elements of a sequence.
Range(s) == {s[i] : i \in 1..Len(s)}

\* The names the last command returned as a list.
Returned == IF out.kind = "list" THEN Range(out.data) ELSE {}

\* A string of exactly ten ASCII decimal digits.
TenAsciiDigits(s) == Len(s) = 10 /\ \A i \in 1..Len(s) : s[i] \in AsciiDigits

\* The texts of the exceptions the handlers can raise.
ErrorTexts ==
    {PhoneError, BirthdayError, NotEnoughValues, TooManyValues, DayOutOfRange}

\* Whole calendar days from today's date to the birthday's day and month in
\* today's year, the time of day left out.
CalendarDelta(dt) ==
    Ordinal(today.y, dt[2], dt[3]) - Ordinal(today.y, today.m, today.d)

\* The birthday's day and month come before today's in the calendar.
BeforeToday(dt) ==
    dt[2] < today.m \/ (dt[2] = today.m /\ dt[3] < today.d)

\* The records that have a birthday.
WithBirthday == {i \in 1..Len(book) : book[i].birthday # NoBirthday}

----------------------------------------------------------------------------
(* C1.  get_upcoming_birthdays returns the name of a record with a         *)
(* birthday exactly when 0 <= D < 7, D being the whole calendar days from  *)
(* today's date to the birthday in the current year, at any time of day: a *)
(* birthday today is included, one 7 days ahead is excluded.               *)
C1_UpcomingIsCalendarWindow ==
    (Handled(CmdBirthdays) /\ out.kind = "list") =>
        \A i \in WithBirthday :
            book[i].name \in Returned
                <=> (0 <= CalendarDelta(book[i].birthday)
                     /\ CalendarDelta(book[i].birthday) < 7)

(* C2.  The command loop stops only on close or exit; no line, an empty or *)
(* whitespace-only one included, ends the process with a failure.          *)
C2_LoopStopsOnlyOnCloseOrExit ==
    /\ pc # "crashed"
    /\ pc = "stopped" => command \in {CmdClose, CmdExit}

(* C3.  add with a name that is in the book and a valid phone returns      *)
(* "Contact updated.", keeps the record with its earlier phones in their   *)
(* order and its birthday, and appends the new phone at the end; no other  *)
(* record changes.                                                         *)
C3_AddExistingAppends ==
    [][(pc = "prompt" /\ pc' = "printed" /\ command' = CmdAdd
            /\ Len(args') >= 2
            /\ find(book, args'[1]) # 0
            /\ TenAsciiDigits(args'[2]))
        => LET i == find(book, args'[1])
           IN  /\ out' = Text(ContactUpdated)
               /\ DOMAIN book' = DOMAIN book
               /\ \A j \in DOMAIN book : j # i => book'[j] = book[j]
               /\ book'[i].name = book[i].name
               /\ book'[i].birthday = book[i].birthday
               /\ book'[i].phones = book[i].phones \o <<args'[2]>>]_vars

\* An add of a phone the record already ended with: it is stored twice.
C3_Witness ==
    /\ Handled(CmdAdd)
    /\ out = Text(ContactUpdated)
    /\ LET ph == book[find(book, args[1])].phones
       IN  Len(ph) >= 2 /\ ph[Len(ph)] = args[2] /\ ph[Len(ph) - 1] = args[2]

\* The number of arguments the command table lists for a command.
TableArgs(cmd) ==
    CASE cmd = CmdAdd -> 2
      [] cmd = CmdChange -> 3
      [] cmd = CmdPhone -> 1
      [] cmd = CmdAddBirthday -> 2
      [] cmd = CmdShowBirthday -> 1

TableCommands ==
    {CmdAdd, CmdChange, CmdPhone, CmdAddBirthday, CmdShowBirthday}

(* C4, as claimed.  For add, change, phone, add-birthday and show-birthday *)
(* a call whose number of arguments differs from the table's, too few or   *)
(* too many, returns an error text and leaves the book unchanged.          *)
C4_AnyMismatchIsAnError ==
    [][(pc = "prompt" /\ pc' = "printed" /\ command' \in TableCommands
            /\ Len(args') # TableArgs(command'))
        => (out'.text \in ErrorTexts /\ book' = book)]_vars

(* C4, amended.  For change, phone, add-birthday and show-birthday a call  *)
(* with too few or too many arguments, and for add a call with too few,    *)
(* returns the text of the unpacking error and leaves the book unchanged;  *)
(* add ignores the arguments after the second: with a valid phone it       *)
(* returns "Contact added." or "Contact updated." and stores the phone.    *)
C4_MismatchIsAnErrorButAddIgnoresExtra ==
    [][(pc = "prompt" /\ pc' = "printed" /\ command' \in TableCommands)
        => /\ (Len(args') < TableArgs(command'))
                => (out' = Text(NotEnoughValues) /\ book' = book)
           /\ (Len(args') > TableArgs(command') /\ command' # CmdAdd)
                => (out' = Text(TooManyValues) /\ book' = book)
           /\ (Len(args') > TableArgs(command') /\ command' = CmdAdd
                    /\ TenAsciiDigits(args'[2]))
                => /\ out' = Text(IF find(book, args'[1]) = 0
                                  THEN ContactAdded ELSE ContactUpdated)
                   /\ LET ph == book'[find(book', args'[1])].phones
                      IN  ph # <<>> /\ ph[Len(ph)] = args'[2]]_vars

\* A change with one argument too many that names a contact and a phone it
\* has: the unpacking error is printed and the phone is still there.
C4_Witness ==
    /\ Handled(CmdChange)
    /\ Len(args) = 4
    /\ find(book, args[1]) # 0
    /\ args[2] \in Range(book[find(book, args[1])].phones)
    /\ out = Text(TooManyValues)

(* C5.  After any sequence of commands every phone stored in any record is *)
(* a string of exactly 10 ASCII decimal digits.                            *)
C5_StoredPhonesAreTenAsciiDigits ==
    \A i \in 1..Len(book) :
        \A k \in 1..Len(book[i].phones) : TenAsciiDigits(book[i].phones[k])

\* The form DD.MM.YYYY: two digits, a dot, two digits, a dot, four digits.
IsDDMMYYYY(s) ==
    /\ Len(s) = 10
    /\ s[3] = "." /\ s[6] = "."
    /\ \A i \in {1, 2, 4, 5, 7, 8, 9, 10} : s[i] \in AsciiDigits

(* C6.  show-birthday returns exactly the date string passed to the most   *)
(* recent add-birthday that succeeded for the contact, or "No birthday     *)
(* set." when none has; add-birthday succeeds only for strings of the form *)
(* DD.MM.YYYY.                                                             *)
C6_ShowBirthdayReturnsTheStringPassed ==
    /\ (Handled(CmdShowBirthday) /\ Len(args) = 1 /\ find(book, args[1]) # 0)
        => out = IF passed[args[1]] = <<>> THEN Text(NoBirthdaySet)
                 ELSE Chars(passed[args[1]])
    /\ (Handled(CmdAddBirthday) /\ out = Text(BirthdayAdded))
        => IsDDMMYYYY(args[2])

IsLeapDay(dt) == dt # NoBirthday /\ dt[2] = 2 /\ dt[3] = 29

(* C8.  When a record has a 29 February birthday and the current year is   *)
(* not a leap year, get_upcoming_birthdays fails: birthdays prints the     *)
(* failure's text and no list, the book is unchanged and the loop goes on. *)
C8_LeapDayFailsTheQuery ==
    [][(pc = "prompt" /\ command' = CmdBirthdays /\ ~IsLeap(today'.y)
            /\ \E i \in 1..Len(book) : IsLeapDay(book[i].birthday))
        => /\ out' = Text(DayOutOfRange)
           /\ book' = book
           /\ pc' = "printed"]_vars

\* The failure is printed although another contact's birthday is in the
\* window (today or in the next days, at midnight).
C8_Witness ==
    /\ Handled(CmdBirthdays)
    /\ ~IsLeap(today.y)
    /\ out = Text(DayOutOfRange)
    /\ \E i, j \in WithBirthday :
        /\ IsLeapDay(book[i].birthday)
        /\ ~IsLeapDay(book[j].birthday)
        /\ CalendarDelta(book[j].birthday) \in 1..6

(* C9.  A change for an existing contact whose old_phone is in the phone   *)
(* list and whose new_phone is not a valid phone returns the validation    *)
(* error text and leaves the phone list unchanged.                         *)
C9_FailedChangeKeepsPhones ==
    [][(pc = "prompt" /\ pc' = "printed" /\ command' = CmdChange
            /\ Len(args') = 3
            /\ find(book, args'[1]) # 0
            /\ args'[2] \in Range(book[find(book, args'[1])].phones)
            /\ ~TenAsciiDigits(args'[3]))
        => (out' = Text(PhoneError) /\ book' = book)]_vars

(* C10.  An add that returns the validation error text leaves the address  *)
(* book unchanged: it creates no record.                                   *)
C10_FailedAddChangesNothing ==
    [][(pc = "prompt" /\ pc' = "printed" /\ command' = CmdAdd
            /\ out' = Text(PhoneError))
        => book' = book]_vars

=============================================================================
